---- MODULE Spec2Model ----
(***************************************************************************)
(* Model of xmodule/course_module.py: the CourseDescriptor, its Textbook   *)
(* table-of-contents cache, its grading policy and its TestCenterExam      *)
(* windows.                                                                *)
(*                                                                         *)
(* Times are whole seconds since the epoch.  A Python value that may be    *)
(* None is modelled with a sentinel of the same TLA+ type.                 *)
(***************************************************************************)
EXTENDS Integers, Sequences, FiniteSets, TLC

VARIABLES
    now,          \* the wall clock read by time.gmtime() / datetime.now()
    cached_toc,   \* module-level dict _cached_toc: toc_url -> (document, timestamp)
    lookup,       \* outcome of the last direct _get_toc_from_s3 call
    exam,         \* outcome of the last direct TestCenterExam(...) construction
    course,       \* outcome of the last course load (CourseDescriptor.__init__ / from_xml)
    reply,        \* outcome of the last operation called on the exam, the course,
                  \* a textbook or a form field
    threads       \* the concurrent _get_toc_from_s3 calls under way, one per thread

vars == <<now, cached_toc, lookup, exam, course, reply, threads>>

-----------------------------------------------------------------------------
(* Bounds of the model *)

\* the clock is read at whole multiples of Slot seconds into a day, at most
\* MaxSlots of them, on the days 0..MaxDays after the epoch
Slot == 300
MaxSlots == 3
MaxDays == 1
\* at most this many textbooks are configured in one course
MaxTextbooks == 2
\* at most this many exams are configured in one course
MaxExams == 2

\* the instants at which the clock is read
Instants == {d * 86400 + k * Slot : d \in 0..MaxDays, k \in 0..MaxSlots}

-----------------------------------------------------------------------------
(* Time: time.gmtime(), datetime.now(), timedelta, xmodule.timeparse *)

\* time.gmtime(0)
Epoch == 0

\* Python None where a time is expected
NoTime == -1

\* the whole days of a difference, rounded toward zero
timedelta_days_TowardZero(d) == IF d >= 0 THEN d \div 86400 ELSE -((-d) \div 86400)

\* timedelta.days of a difference of d seconds: the whole days, rounded
\* toward minus infinity
timedelta_days(d) == d \div 86400

\* timedelta.seconds of a difference of d seconds: the part left over after
\* the whole days are taken out
timedelta_seconds(d) == d % 86400

\* strings: a string in the timestamp grammar carries the time it denotes,
\* any other string is free text
TimeString(t) == [text |-> "%Y-%m-%dT%H:%M", at |-> t]
FreeText(s) == [text |-> s, at |-> 0]
IsTimeString(s) == s.text = "%Y-%m-%dT%H:%M"

\* parse_time raises ValueError on a string outside the grammar
parse_time_raises(s) == ~IsTimeString(s)
parse_time(s) == s.at

\* stringify_time
stringify_time(t) == TimeString(t)

\* time.strftime("%b %d, %Y", t): the calendar day, time of day dropped
strftime_date(t) == [text |-> "%b %d, %Y", at |-> t \div 86400]

-----------------------------------------------------------------------------
(* Textbook table of contents: lines 36-99 *)

\* An element of the table of contents: its page attribute ("" when the
\* attribute is missing) and its children.
Entry(page, children) == [page |-> page, children |-> children]

\* documents the server may hand out (root elements)
TocFlat == Entry("", <<Entry("1", <<>>), Entry("10", <<>>)>>)
TocNested == Entry("", <<Entry("3", <<>>),
                         Entry("5", <<Entry("6", <<>>),
                                      Entry("7", <<Entry("8", <<>>), Entry("9", <<>>)>>)>>)>>)
TocEmpty == Entry("", <<>>)
TocNoPage == Entry("", <<Entry("", <<>>), Entry("4", <<>>)>>)
TocBadLast == Entry("", <<Entry("2", <<>>), Entry("7", <<Entry("x", <<>>)>>)>>)

\* Python None where a document is expected
NoToc == Entry("None", <<>>)

Tocs == {TocFlat, TocNested, TocEmpty, TocNoPage, TocBadLast}

\* configured book_url values
BookUrls == {"s3/book1/", "s3/book2/"}

\* toc_url = self.book_url + 'toc.xml'
TocUrl(book_url) == <<book_url, "toc.xml">>

\* what requests.get and etree.fromstring do with a request: requests.get
\* raises ("error"), the text is not XML ("malformed"), or the text parses
\* to a document ("xml")
Response(kind, toc) == [kind |-> kind, toc |-> toc]
Responses(docs) ==
    {Response("error", NoToc), Response("malformed", NoToc)}
        \cup {Response("xml", d) : d \in docs}

\* a cache entry: the tuple (table_of_contents, timestamp)
CacheEntry(toc, timestamp) == [toc |-> toc, timestamp |-> timestamp]

\* lines 72-77: the entry exists and age.seconds < 600
CacheHit(cache, toc_url, t) ==
    /\ toc_url \in DOMAIN cache
    /\ timedelta_seconds(t - cache[toc_url].timestamp) < 600

\* dict assignment d[k] = v
DictSet(d, k, v) == [x \in DOMAIN d \cup {k} |-> IF x = k THEN v ELSE d[x]]

\* the lookup that stamps the entry before the text is parsed
_get_toc_from_s3_StoreFirst(cache, book_url, resp, t) ==
    LET toc_url == TocUrl(book_url) IN
    IF CacheHit(cache, toc_url, t)
    THEN [raised |-> FALSE, toc |-> cache[toc_url].toc, fetched |-> FALSE,
          cache |-> cache]
    ELSE IF resp.kind = "error"
    THEN [raised |-> TRUE, toc |-> NoToc, fetched |-> TRUE, cache |-> cache]
    ELSE IF resp.kind = "malformed"
    THEN [raised |-> TRUE, toc |-> NoToc, fetched |-> TRUE,
          cache |-> DictSet(cache, toc_url, CacheEntry(NoToc, t))]
    ELSE [raised |-> FALSE, toc |-> resp.toc, fetched |-> TRUE,
          cache |-> DictSet(cache, toc_url, CacheEntry(resp.toc, t))]

\* Textbook._get_toc_from_s3 run at time t against the cache, resp being
\* the network's answer should a request be made.  The result tells whether
\* the call raised, the document returned, whether requests.get was called,
\* and the cache afterwards.
_get_toc_from_s3(cache, book_url, resp, t) ==
    LET toc_url == TocUrl(book_url) IN
    IF CacheHit(cache, toc_url, t)
    THEN [raised |-> FALSE, toc |-> cache[toc_url].toc, fetched |-> FALSE,
          cache |-> cache]
    ELSE IF resp.kind = "error"
    THEN [raised |-> TRUE, toc |-> NoToc, fetched |-> TRUE, cache |-> cache]
    ELSE IF resp.kind = "malformed"
    THEN [raised |-> TRUE, toc |-> NoToc, fetched |-> TRUE, cache |-> cache]
    ELSE [raised |-> FALSE, toc |-> resp.toc, fetched |-> TRUE,
          cache |-> DictSet(cache, toc_url, CacheEntry(resp.toc, t))]

\* no lookup made yet
NoLookup ==
    [called |-> FALSE, at |-> 0, url |-> TocUrl(""), had_entry |-> FALSE, age |-> 0,
     before |-> CacheEntry(NoToc, 0), raised |-> FALSE, fetched |-> FALSE,
     toc |-> NoToc]

\* int() of a page attribute: the decimal strings and their numbers; any
\* other string makes int() raise ValueError
PageNumbers ==
    [p \in {"1", "2", "3", "4", "5", "6", "7", "8", "9", "10"} |->
        CASE p = "1" -> 1 [] p = "2" -> 2 [] p = "3" -> 3 [] p = "4" -> 4
          [] p = "5" -> 5 [] p = "6" -> 6 [] p = "7" -> 7 [] p = "8" -> 8
          [] p = "9" -> 9 [] p = "10" -> 10]

\* int(el.attrib['page']) raises: the attribute is missing (KeyError) or is
\* not a number (ValueError)
page_raises(el) == el.page \notin DOMAIN PageNumbers
page_int(el) == PageNumbers[el.page]

\* the descent cut short after one step
last_el_Shallow(el) ==
    IF el.children = <<>> THEN el
    ELSE el.children[Len(el.children)]

\* lines 45-47: from el, move to the last child until there are no children
RECURSIVE last_el(_)
last_el(el) ==
    IF el.children = <<>> THEN el
    ELSE last_el(el.children[Len(el.children)])

\* a textbook whose construction raised
NoTextbook ==
    [title |-> "", book_url |-> "", table_of_contents |-> NoToc,
     start_page |-> 0, end_page |-> 0]

\* Textbook.__init__ run at time t against the cache: whether it raised, the
\* textbook constructed, and the cache afterwards
Textbook(title, book_url, cache, resp, t) ==
    LET got == _get_toc_from_s3(cache, book_url, resp, t)
        toc == got.toc
        failed == [raised |-> TRUE, textbook |-> NoTextbook, cache |-> got.cache]
    IN  IF got.raised THEN failed
        ELSE IF toc.children = <<>> THEN failed
        ELSE IF page_raises(toc.children[1]) THEN failed
        ELSE IF page_raises(last_el(toc.children[Len(toc.children)])) THEN failed
        ELSE [raised |-> FALSE,
              textbook |-> [title |-> title, book_url |-> book_url,
                            table_of_contents |-> toc,
                            start_page |-> page_int(toc.children[1]),
                            end_page |-> page_int(last_el(toc.children[Len(toc.children)]))],
              cache |-> got.cache]

-----------------------------------------------------------------------------
(* TestCenterExam: lines 558-626 *)

\* exam_info keys
FIRST == "First_Eligible_Appointment_Date"
LAST == "Last_Eligible_Appointment_Date"
REG_START == "Registration_Start_Date"
REG_END == "Registration_End_Date"
SERIES == "Exam_Series_Code"
DISPLAY == "Exam_Display_Name"

\* TestCenterExam._try_parse_time: the parsed time of an exam_info key, None
\* when the key is absent or its value does not parse
exam_try_parse_time(exam_info, key) ==
    IF key \in DOMAIN exam_info
    THEN IF parse_time_raises(exam_info[key]) THEN NoTime
         ELSE parse_time(exam_info[key])
    ELSE NoTime

\* an optional time taken as it is, with no default
time_or_NoDefault(x, default) == x

\* Python's `x or default` for an optional time (a struct_time is never falsy)
time_or(x, default) == IF x = NoTime THEN default ELSE x

\* Python's `exam_info.get(key) or default` for an optional string
get_or(exam_info, key, default) ==
    IF key \in DOMAIN exam_info /\ exam_info[key].text # ""
    THEN exam_info[key] ELSE default

\* the validation without its last test
ExamValidationError_NoEndTest(registration_start, registration_end, first_eligible, last_eligible) ==
    IF registration_start > registration_end
    THEN "Registration start date must be before registration end date"
    ELSE IF first_eligible > last_eligible
    THEN "First appointment date must be before last appointment date"
    ELSE ""

\* the validation refusing a registration that starts and ends at one time
ExamValidationError_Strict(registration_start, registration_end, first_eligible, last_eligible) ==
    IF registration_start >= registration_end
    THEN "Registration start date must be before registration end date"
    ELSE IF first_eligible > last_eligible
    THEN "First appointment date must be before last appointment date"
    ELSE IF registration_end > last_eligible
    THEN "Registration end date must be before last appointment date"
    ELSE ""

\* lines 577-583: the message of the ValueError raised by the validation of
\* the four dates, "" when none is raised
ExamValidationError(registration_start, registration_end, first_eligible, last_eligible) ==
    IF registration_start > registration_end
    THEN "Registration start date must be before registration end date"
    ELSE IF first_eligible > last_eligible
    THEN "First appointment date must be before last appointment date"
    ELSE IF registration_end > last_eligible
    THEN "Registration end date must be before last appointment date"
    ELSE ""

\* the outcome of a construction that raised
ExamRaised(exam_name, exam_info, msg) ==
    [called |-> TRUE, constructed |-> FALSE, error |-> msg,
     exam_name |-> exam_name, exam_info |-> exam_info,
     exam_series_code |-> FreeText(""), display_name |-> FreeText(""),
     first_eligible_appointment_date |-> NoTime,
     last_eligible_appointment_date |-> NoTime,
     registration_start_date |-> NoTime,
     registration_end_date |-> NoTime]

\* no exam: Python None where an exam is expected
NoExam ==
    [called |-> FALSE, constructed |-> FALSE, error |-> "",
     exam_name |-> "", exam_info |-> <<>>,
     exam_series_code |-> FreeText(""), display_name |-> FreeText(""),
     first_eligible_appointment_date |-> NoTime,
     last_eligible_appointment_date |-> NoTime,
     registration_start_date |-> NoTime,
     registration_end_date |-> NoTime]

\* TestCenterExam.__init__: the constructed exam, or the error raised
TestCenterExam(exam_name, exam_info) ==
    LET series == get_or(exam_info, SERIES, FreeText(exam_name))
        display == get_or(exam_info, DISPLAY, series)
        first == exam_try_parse_time(exam_info, FIRST)
        last == exam_try_parse_time(exam_info, LAST)
        reg_start == time_or(exam_try_parse_time(exam_info, REG_START), Epoch)
        reg_end == time_or(exam_try_parse_time(exam_info, REG_END), last)
        invalid == ExamValidationError(reg_start, reg_end, first, last)
    IN  IF first = NoTime
        THEN ExamRaised(exam_name, exam_info, "First appointment date must be specified")
        ELSE IF last = NoTime
        THEN ExamRaised(exam_name, exam_info, "Last appointment date must be specified")
        ELSE IF invalid # ""
        THEN ExamRaised(exam_name, exam_info, invalid)
        ELSE [called |-> TRUE, constructed |-> TRUE, error |-> "",
              exam_name |-> exam_name, exam_info |-> exam_info,
              exam_series_code |-> series, display_name |-> display,
              first_eligible_appointment_date |-> first,
              last_eligible_appointment_date |-> last,
              registration_start_date |-> reg_start,
              registration_end_date |-> reg_end]

\* the predicates of a constructed exam e, the clock reading t
exam_has_started(e, t) == t > e.first_eligible_appointment_date
\* has_ended answering true from the last appointment date itself on
exam_has_ended_AtOrAfter(e, t) == t >= e.last_eligible_appointment_date
exam_has_ended(e, t) == t > e.last_eligible_appointment_date
has_started_registration(e, t) == t > e.registration_start_date
has_ended_registration(e, t) == t > e.registration_end_date
\* is_registering with the end of the window left out
is_registering_EndExcluded(e, t) ==
    t >= e.registration_start_date /\ t < e.registration_end_date
is_registering(e, t) ==
    t >= e.registration_start_date /\ t <= e.registration_end_date

\* the date strings an exam_info carries
ExamDates == {Slot, 2 * Slot}
DateStrings == {TimeString(t) : t \in ExamDates} \cup {FreeText("soon")}

\* the dicts over a set of keys with values in a set
Dicts(keys, values) == UNION {[ks -> values] : ks \in SUBSET keys}

\* the exam_info dicts tried: every choice of the four dates, and some with
\* a series code and a display name
DatedInfos == Dicts({FIRST, LAST, REG_START, REG_END}, DateStrings)
NamedInfos ==
    {[k \in {FIRST, LAST} \cup ks |->
         IF k \in {FIRST, LAST} THEN TimeString(Slot)
         ELSE IF k = SERIES THEN FreeText("6002x001ABC") ELSE FreeText("Final Exam")]
       : ks \in SUBSET {SERIES, DISPLAY}}
ExamInfos == DatedInfos \cup NamedInfos

ExamNames == {"Midterm_Exam", "Final_Exam"}

-----------------------------------------------------------------------------
(* Grading policy: lines 145-200 *)

\* weights and cutoffs are written in hundredths: 15 stands for 0.15
GraderHomework ==
    [type |-> "Homework", min_count |-> 12, drop_count |-> 2,
     short_label |-> "HW", weight |-> 15]
GraderLab == [type |-> "Lab", min_count |-> 12, drop_count |-> 2, weight |-> 15]
GraderMidterm ==
    [type |-> "Midterm Exam", short_label |-> "Midterm", min_count |-> 1,
     drop_count |-> 0, weight |-> 30]
GraderFinal ==
    [type |-> "Final Exam", short_label |-> "Final", min_count |-> 1,
     drop_count |-> 0, weight |-> 40]

\* CourseDescriptor.defaut_grading_policy
defaut_grading_policy ==
    [GRADER |-> <<GraderHomework, GraderLab, GraderMidterm, GraderFinal>>,
     GRADE_CUTOFFS |-> [Pass |-> 50]]

\* a course policy: Python None, or a dict
NonePolicy == [none |-> TRUE, dict |-> <<>>]
Policy(d) == [none |-> FALSE, dict |-> d]

\* graders.grader_from_conf: the grader built from a raw grader spec
grader_from_conf(conf) == [grader_from_conf |-> conf]

\* the update made the wrong way round: the defaults written over the
\* course settings
dict_update_DefaultsWin(d, other) ==
    [k \in DOMAIN d \cup DOMAIN other |-> IF k \in DOMAIN d THEN d[k] ELSE other[k]]

\* dict.update: every key of other written over d
dict_update(d, other) ==
    [k \in DOMAIN d \cup DOMAIN other |-> IF k \in DOMAIN other THEN other[k] ELSE d[k]]

\* CourseDescriptor.set_grading_policy: the value of self._grading_policy
set_grading_policy(course_policy) ==
    LET policy == IF course_policy.none THEN <<>> ELSE course_policy.dict
        grading_policy == dict_update(defaut_grading_policy, policy)
        with_raw == DictSet(grading_policy, "RAW_GRADER", grading_policy["GRADER"])
    IN  DictSet(with_raw, "GRADER", grader_from_conf(with_raw["GRADER"]))

\* the properties grader, raw_grader and grade_cutoffs of a loaded course c
grader(c) == c.grading_policy["GRADER"]
raw_grader(c) == c.grading_policy["RAW_GRADER"]
grade_cutoffs(c) == c.grading_policy["GRADE_CUTOFFS"]

-----------------------------------------------------------------------------
(* Course dates: lines 115-121, 292-293, 478-494 *)

\* the inherited _try_parse_time of a descriptor: the parsed time of a
\* metadata key, None when the key is absent or its value does not parse
course_try_parse_time(metadata, key) ==
    IF key \in DOMAIN metadata
    THEN IF parse_time_raises(metadata[key]) THEN NoTime
         ELSE parse_time(metadata[key])
    ELSE NoTime

\* the inherited property start
start(metadata) == course_try_parse_time(metadata, "start")

\* has_started with the comparison turned round
course_has_started_Reversed(c, t) == t < start(c.metadata)

\* CourseDescriptor.has_started
course_has_started(c, t) == t > start(c.metadata)

\* start_date_text with the real start preferred to the advertised one
start_date_text_StartFirst(c) ==
    LET parsed_advertised_start == course_try_parse_time(c.metadata, "advertised_start")
        displayed_start == time_or(start(c.metadata), parsed_advertised_start)
    IN  IF parsed_advertised_start = NoTime /\ "advertised_start" \in DOMAIN c.metadata
        THEN c.metadata["advertised_start"]
        ELSE IF displayed_start = NoTime THEN FreeText("TBD")
        ELSE strftime_date(displayed_start)

\* CourseDescriptor.start_date_text
start_date_text(c) ==
    LET parsed_advertised_start == course_try_parse_time(c.metadata, "advertised_start")
        displayed_start == time_or(parsed_advertised_start, start(c.metadata))
    IN  IF parsed_advertised_start = NoTime /\ "advertised_start" \in DOMAIN c.metadata
        THEN c.metadata["advertised_start"]
        ELSE IF displayed_start = NoTime THEN FreeText("TBD")
        ELSE strftime_date(displayed_start)

\* lines 376-377: convert_to_datetime, time.mktime then
\* datetime.fromtimestamp: the datetime of the same second
convert_to_datetime(timestamp) == timestamp

\* CourseDescriptor.days_until_start, the clock reading t
days_until_start(c, t) ==
    LET advertised_given ==
            /\ "advertised_start" \in DOMAIN c.metadata
            /\ c.metadata["advertised_start"].text # ""
        start_date ==
            IF advertised_given /\ IsTimeString(c.metadata["advertised_start"])
            THEN c.metadata["advertised_start"].at
            ELSE convert_to_datetime(start(c.metadata))
    IN  timedelta_days(start_date - convert_to_datetime(t))

-----------------------------------------------------------------------------
(* CourseDescriptor.__init__: lines 101-143 *)

\* metadata.get('testcenter_info'): None, or the exams in the order the
\* mapping is iterated, each a pair of exam_name and exam_info
NoneInfo == [none |-> TRUE, exams |-> <<>>]
TestCenterInfo(exams) == [none |-> FALSE, exams |-> exams]

\* a log record
Logged(level, msg) == [level |-> level, msg |-> msg]

\* a textbook failure let through instead of caught
AppendTextbook_Propagates(acc, r) ==
    IF r.raised
    THEN [acc EXCEPT !.cache = r.cache, !.raised = TRUE,
                     !.attempts = Append(@, ~r.raised)]
    ELSE [acc EXCEPT !.cache = r.cache,
                     !.textbooks = Append(@, r.textbook),
                     !.attempts = Append(@, ~r.raised)]

\* lines 105-111: the body of the loop over the configured textbooks, r
\* being the outcome of Textbook(title, book_url)
AppendTextbook(acc, r) ==
    IF r.raised
    THEN [acc EXCEPT !.cache = r.cache,
                     !.log = Append(@, Logged("exception", "Couldn't load textbook")),
                     !.attempts = Append(@, ~r.raised)]
    ELSE [acc EXCEPT !.cache = r.cache,
                     !.textbooks = Append(@, r.textbook),
                     !.attempts = Append(@, ~r.raised)]

\* lines 103-111: the loop over the configured textbooks from the i-th on
RECURSIVE LoadTextbooks(_, _, _, _, _)
LoadTextbooks(configured, responses, i, acc, t) ==
    IF i > Len(configured) \/ acc.raised THEN acc
    ELSE LoadTextbooks(configured, responses, i + 1,
             AppendTextbook(acc,
                 Textbook(configured[i].title, configured[i].book_url,
                          acc.cache, responses[i], t)),
             t)

\* an exam failure let through instead of caught
AppendExam_Propagates(acc, e) ==
    IF e.constructed
    THEN [acc EXCEPT !.test_center_exams = Append(@, e)]
    ELSE [acc EXCEPT !.raised = TRUE]

\* lines 135-143: the body of the loop over the configured exams, e being
\* the outcome of TestCenterExam(self.id, exam_name, exam_info)
AppendExam(acc, e) ==
    IF e.constructed
    THEN [acc EXCEPT !.test_center_exams = Append(@, e)]
    ELSE [acc EXCEPT !.log = Append(@, Logged("error", "Unable to load test-center exam info"))]

\* lines 134-143: the loop over the configured exams from the i-th on
RECURSIVE LoadExams(_, _, _)
LoadExams(exams, i, acc) ==
    IF i > Len(exams) \/ acc.raised THEN acc
    ELSE LoadExams(exams, i + 1,
             AppendExam(acc, TestCenterExam(exams[i].exam_name, exams[i].exam_info)))

\* the outcome of a course construction that raised
CourseRaised(cfg) ==
    [called |-> TRUE, loaded |-> FALSE, configured |-> cfg, metadata |-> cfg.metadata,
     textbooks |-> <<>>, attempts |-> <<>>, log |-> <<>>, error_tracker |-> <<>>,
     definition_has_grading_policy |-> ~cfg.grading_policy.none,
     definition_grading_policy |-> cfg.grading_policy,
     grading_policy |-> <<>>, test_center_exams |-> <<>>]

\* definition_has_grading_policy tells whether definition['data'] has the
\* key 'grading_policy' (a configuration without a policy is a definition
\* without the key), definition_grading_policy is its value.
\* CourseDescriptor.__init__ run at time t against the cache, on the
\* configuration cfg (the definition's textbooks and grading_policy, the
\* metadata, and the network's answers to the requests made): the course
\* constructed and the cache afterwards
CourseInit(cfg, cache, t) ==
    LET books == LoadTextbooks(cfg.textbooks, cfg.responses, 1,
                     [textbooks |-> <<>>, attempts |-> <<>>, log |-> <<>>,
                      cache |-> cache, raised |-> FALSE], t)
        no_start == start(cfg.metadata) = NoTime
        metadata == IF no_start
                    THEN DictSet(cfg.metadata, "start", stringify_time(Epoch))
                    ELSE cfg.metadata
        log1 == IF no_start
                THEN Append(books.log,
                         Logged("critical", "Course loaded without a valid start date"))
                ELSE books.log
        error_tracker == IF no_start
                         THEN <<"Course loaded without a valid start date">>
                         ELSE <<>>
        exams == IF cfg.testcenter_info.none
                 THEN [test_center_exams |-> <<>>, log |-> log1, raised |-> FALSE]
                 ELSE LoadExams(cfg.testcenter_info.exams, 1,
                          [test_center_exams |-> <<>>, log |-> log1, raised |-> FALSE])
    IN  IF books.raised \/ exams.raised
        THEN [course |-> CourseRaised(cfg), cache |-> books.cache]
        ELSE [course |->
                 [called |-> TRUE, loaded |-> TRUE, configured |-> cfg, metadata |-> metadata,
                  textbooks |-> books.textbooks, attempts |-> books.attempts,
                  log |-> exams.log, error_tracker |-> error_tracker,
                  definition_has_grading_policy |-> ~cfg.grading_policy.none,
                  definition_grading_policy |-> cfg.grading_policy,
                  grading_policy |-> set_grading_policy(cfg.grading_policy),
                  test_center_exams |-> exams.test_center_exams],
              cache |-> books.cache]

\* current_test_center_exam answering the last of the current exams
current_test_center_exam_Last(c, t) ==
    LET current(e) == has_started_registration(e, t) /\ ~exam_has_ended(e, t)
        exams == SelectSeq(c.test_center_exams, current)
    IN  IF Len(exams) > 1 THEN exams[Len(exams)]
        ELSE IF Len(exams) = 1 THEN exams[1]
        ELSE NoExam

\* CourseDescriptor.current_test_center_exam, the clock reading t; None is
\* the exam that was never constructed
current_test_center_exam(c, t) ==
    LET current(e) == has_started_registration(e, t) /\ ~exam_has_ended(e, t)
        exams == SelectSeq(c.test_center_exams, current)
    IN  IF Len(exams) > 1 THEN exams[1]
        ELSE IF Len(exams) = 1 THEN exams[1]
        ELSE NoExam

\* a course configuration
Config(textbooks, responses, metadata, testcenter_info, grading_policy) ==
    [textbooks |-> textbooks, responses |-> responses, metadata |-> metadata,
     testcenter_info |-> testcenter_info, grading_policy |-> grading_policy]

-----------------------------------------------------------------------------
(* Initial state and the clock *)

NoCourse ==
    [CourseRaised(Config(<<>>, <<>>, <<>>, NoneInfo, NonePolicy))
        EXCEPT !.called = FALSE]
NoReply == [op |-> "", at |-> 0, val |-> FALSE]

\* a thread that is not in _get_toc_from_s3
IdleThread ==
    [pc |-> "idle", resp |-> Response("error", NoToc), had_entry |-> FALSE,
     before |-> CacheEntry(NoToc, 0), entry |-> CacheEntry(NoToc, 0),
     table_of_contents |-> NoToc, raised |-> FALSE, returned |-> FALSE,
     stored |-> FALSE, written |-> CacheEntry(NoToc, 0), order |-> 0]

Init ==
    /\ now = Epoch
    /\ cached_toc = <<>>
    /\ lookup = NoLookup
    /\ exam = NoExam
    /\ course = NoCourse
    /\ reply = NoReply
    /\ threads = [i \in {1, 2} |-> IdleThread]

\* time passes
Tick ==
    /\ \E t \in Instants :
          /\ t > now
          /\ now' = t
    /\ UNCHANGED <<cached_toc, lookup, exam, course, reply, threads>>

-----------------------------------------------------------------------------
(* The table-of-contents cache on its own *)

\* one call of Textbook._get_toc_from_s3 for a book_url
LookupToc ==
    \E u \in BookUrls, r \in Responses({TocFlat, TocNested}) :
        LET toc_url == TocUrl(u)
            had == toc_url \in DOMAIN cached_toc
            res == _get_toc_from_s3(cached_toc, u, r, now)
        IN  /\ cached_toc' = res.cache
            /\ lookup' = [called |-> TRUE, at |-> now, url |-> toc_url,
                          had_entry |-> had,
                          age |-> IF had THEN now - cached_toc[toc_url].timestamp ELSE 0,
                          before |-> IF had THEN cached_toc[toc_url]
                                     ELSE CacheEntry(NoToc, 0),
                          raised |-> res.raised, fetched |-> res.fetched,
                          toc |-> res.toc]
            /\ UNCHANGED <<now, exam, course, reply, threads>>

NextToc == Tick \/ LookupToc

SpecToc == Init /\ [][NextToc]_vars

\* C1: a lookup made less than 600 seconds after the entry was stored returns
\* the cached document without a new fetch, and a lookup made 600 seconds or
\* more after the entry was stored, however long after, performs a fresh
\* fetch and, when the fetch yields a document, overwrites the entry.
C1_TocCacheExpiresAfter600s ==
    (lookup.called /\ lookup.had_entry) =>
        /\ lookup.age < 600 =>
              /\ ~lookup.fetched
              /\ ~lookup.raised
              /\ lookup.toc = lookup.before.toc
              /\ cached_toc[lookup.url] = lookup.before
        /\ lookup.age >= 600 =>
              /\ lookup.fetched
              /\ ~lookup.raised =>
                    cached_toc[lookup.url] = CacheEntry(lookup.toc, lookup.at)

-----------------------------------------------------------------------------
(* A test-center exam on its own *)

\* TestCenterExam(course_id, exam_name, exam_info) is called
NewTestCenterExam ==
    \E exam_name \in {"Final_Exam"}, exam_info \in ExamInfos :
        /\ exam' = TestCenterExam(exam_name, exam_info)
        /\ reply' = NoReply
        /\ UNCHANGED <<now, cached_toc, lookup, course, threads>>

\* a predicate of the constructed exam is called and answers val
ExamAnswers(op, val) ==
    /\ exam.constructed
    /\ reply' = [op |-> op, at |-> now, val |-> val]
    /\ UNCHANGED <<now, cached_toc, lookup, exam, course, threads>>

ExamHasStarted == ExamAnswers("has_started", exam_has_started(exam, now))
ExamHasEnded == ExamAnswers("has_ended", exam_has_ended(exam, now))
ExamHasStartedRegistration ==
    ExamAnswers("has_started_registration", has_started_registration(exam, now))
ExamHasEndedRegistration ==
    ExamAnswers("has_ended_registration", has_ended_registration(exam, now))
ExamIsRegistering == ExamAnswers("is_registering", is_registering(exam, now))

NextExam ==
    \/ Tick
    \/ NewTestCenterExam
    \/ ExamHasStarted
    \/ ExamHasEnded
    \/ ExamHasStartedRegistration
    \/ ExamHasEndedRegistration
    \/ ExamIsRegistering

SpecExam == Init /\ [][NextExam]_vars

\* C2: every successfully constructed TestCenterExam has
\* registration_start_date <= registration_end_date <=
\* last_eligible_appointment_date and first_eligible_appointment_date <=
\* last_eligible_appointment_date.
C2_ExamDatesOrdered ==
    exam.constructed =>
        /\ exam.registration_start_date <= exam.registration_end_date
        /\ exam.registration_end_date <= exam.last_eligible_appointment_date
        /\ exam.first_eligible_appointment_date <= exam.last_eligible_appointment_date

\* a constructed exam whose four dates were all configured, registration
\* ending before the last appointment
C2_Witness ==
    /\ exam.constructed
    /\ DOMAIN exam.exam_info = {FIRST, LAST, REG_START, REG_END}
    /\ exam.registration_start_date = Slot
    /\ exam.registration_end_date < exam.last_eligible_appointment_date

\* the value of an exam_info key is there and parses
Parses(info, key) == key \in DOMAIN info /\ IsTimeString(info[key])
\* the date a key stands for once its default is applied
Configured(info, key, default) == IF Parses(info, key) THEN info[key].at ELSE default

\* the five cases in which the construction is to raise, the defaults of the
\* registration dates applied
MustRaise(info) ==
    LET first == Configured(info, FIRST, NoTime)
        last == Configured(info, LAST, NoTime)
        reg_start == Configured(info, REG_START, Epoch)
        reg_end == Configured(info, REG_END, last)
    IN  \/ ~Parses(info, FIRST)
        \/ ~Parses(info, LAST)
        \/ /\ Parses(info, FIRST)
           /\ Parses(info, LAST)
           /\ \/ reg_start > reg_end
              \/ first > last
              \/ reg_end > last

\* C3: construction raises exactly when the first or the last eligible
\* appointment date is absent or unparseable, or, the defaults applied,
\* registration_start > registration_end, first_eligible > last_eligible or
\* registration_end > last_eligible; otherwise it succeeds.
C3_ExamRaisesExactlyWhen ==
    exam.called =>
        /\ exam.constructed = ~MustRaise(exam.exam_info)
        /\ (exam.error # "") = MustRaise(exam.exam_info)

\* a construction that raised on dates that all parse, and only because
\* registration ends after the last appointment
C3_Witness ==
    /\ exam.called
    /\ ~exam.constructed
    /\ \A k \in {FIRST, LAST, REG_START, REG_END} : Parses(exam.exam_info, k)
    /\ exam.exam_info[REG_END].at > exam.exam_info[LAST].at
    /\ exam.exam_info[REG_START].at <= exam.exam_info[REG_END].at
    /\ exam.exam_info[FIRST].at <= exam.exam_info[LAST].at

\* C4: is_registering() answers true if and only if, at the time of the
\* call, registration_start_date <= now <= registration_end_date.
C4_IsRegisteringIffInWindow ==
    (exam.constructed /\ reply.op = "is_registering") =>
        (reply.val <=> /\ exam.registration_start_date <= reply.at
                       /\ reply.at <= exam.registration_end_date)

\* is_registering() answered true at the very end of the registration window
C4_Witness ==
    /\ exam.constructed
    /\ reply.op = "is_registering"
    /\ reply.val
    /\ reply.at = exam.registration_end_date
    /\ exam.registration_start_date < exam.registration_end_date

-----------------------------------------------------------------------------
(* A course and its test-center exams *)

\* the names of the configured exams, in the order the mapping is iterated
ExamNameAt == <<"Midterm_Exam", "Final_Exam", "Makeup_Exam", "Practice_Exam">>

\* the exam_info dicts configured in a course: three that pass validation,
\* with registration open during (0, Slot], (0, 2 Slot] and (Slot, 2 Slot],
\* and three that do not
CourseExamInfos ==
    {(FIRST :> TimeString(Slot)) @@ (LAST :> TimeString(Slot)),
     (FIRST :> TimeString(Slot)) @@ (LAST :> TimeString(2 * Slot)),
     (FIRST :> TimeString(Slot)) @@ (LAST :> TimeString(2 * Slot))
         @@ (REG_START :> TimeString(Slot)),
     (FIRST :> TimeString(Slot)) @@ (LAST :> TimeString(Slot))
         @@ (REG_END :> TimeString(2 * Slot)),
     (LAST :> TimeString(2 * Slot)),
     (FIRST :> TimeString(Slot)) @@ (LAST :> FreeText("soon"))}

\* the testcenter_info mappings configured: None, or up to MaxExams exams
ExamsOf(infos) ==
    [i \in 1..Len(infos) |-> [exam_name |-> ExamNameAt[i], exam_info |-> infos[i]]]
TestCenterInfos ==
    {NoneInfo} \cup
    {TestCenterInfo(ExamsOf(infos))
        : infos \in UNION {[1..n -> CourseExamInfos] : n \in 0..MaxExams}}

\* a course is constructed whose metadata configures test-center exams
LoadCourseWithExams ==
    \E info \in TestCenterInfos :
        LET cfg == Config(<<>>, <<>>, [start |-> TimeString(Slot)], info, NonePolicy)
            res == CourseInit(cfg, cached_toc, now)
        IN  /\ course' = res.course
            /\ cached_toc' = res.cache
            /\ reply' = NoReply
            /\ UNCHANGED <<now, lookup, exam, threads>>

\* the property current_test_center_exam of the loaded course is read
CurrentTestCenterExam ==
    /\ course.loaded
    /\ reply' = [op |-> "current_test_center_exam", at |-> now,
                 val |-> current_test_center_exam(course, now)]
    /\ UNCHANGED <<now, cached_toc, lookup, exam, course, threads>>

NextCourseExams == Tick \/ LoadCourseWithExams \/ CurrentTestCenterExam

SpecCourseExams == Init /\ [][NextCourseExams]_vars

\* the i-th exam of the list has opened registration and has not ended at t
IsCurrent(exams, i, t) ==
    /\ t > exams[i].registration_start_date
    /\ ~(t > exams[i].last_eligible_appointment_date)

\* C5: current_test_center_exam answers the first exam, in the order of
\* test_center_exams, that has started registration and has not ended at
\* the time of the call, and None exactly when there is no such exam.
C5_CurrentExamIsFirstCurrent ==
    (course.loaded /\ reply.op = "current_test_center_exam") =>
        LET exams == course.test_center_exams
            found == {i \in 1..Len(exams) : IsCurrent(exams, i, reply.at)}
        IN  /\ (reply.val = NoExam) <=> (found = {})
            /\ found # {} =>
                  \E i \in found :
                      /\ \A j \in found : i <= j
                      /\ reply.val = exams[i]

\* two different exams were current at the time of the call and the
\* earlier of the two was the answer
C5_Witness ==
    /\ course.loaded
    /\ reply.op = "current_test_center_exam"
    /\ Len(course.test_center_exams) = 2
    /\ \A i \in 1..2 : IsCurrent(course.test_center_exams, i, reply.at)
    /\ course.test_center_exams[1] # course.test_center_exams[2]
    /\ reply.val = course.test_center_exams[1]

\* the exams of a configured mapping whose info passes validation
ValidExams(info) ==
    IF info.none THEN <<>>
    ELSE SelectSeq(info.exams, LAMBDA x : ~MustRaise(x.exam_info))

\* C6: a course constructed with a testcenter_info mapping never fails on
\* an invalid exam entry; test_center_exams holds exactly one exam for each
\* configured exam whose info passes validation, in the order of the
\* mapping, and none for an exam whose info fails to parse or validate.
C6_InvalidExamsDropped ==
    course.called =>
        LET valid == ValidExams(course.configured.testcenter_info)
            exams == course.test_center_exams
        IN  /\ course.loaded
            /\ Len(exams) = Len(valid)
            /\ \A i \in 1..Len(exams) :
                  /\ exams[i].constructed
                  /\ exams[i].exam_name = valid[i].exam_name
                  /\ exams[i].exam_info = valid[i].exam_info

\* a course loaded with an invalid exam configured before a valid one
C6_Witness ==
    /\ course.loaded
    /\ ~course.configured.testcenter_info.none
    /\ Len(course.configured.testcenter_info.exams) = 2
    /\ MustRaise(course.configured.testcenter_info.exams[1].exam_info)
    /\ Len(course.test_center_exams) = 1
    /\ course.test_center_exams[1].exam_name = ExamNameAt[2]

-----------------------------------------------------------------------------
(* A course, its dates and its grading policy *)

\* the days on which a course starts or is advertised to start
CourseDates == {Slot, 86400 + Slot}

\* the metadata configured: start and advertised_start, each absent, a
\* timestamp or free text
Metadatas ==
    Dicts({"start", "advertised_start"},
          {TimeString(t) : t \in CourseDates} \cup {FreeText("Spring 2013")})

\* the grading policies found in a definition: None, or a dict with any of
\* the keys GRADER and GRADE_CUTOFFS
OneGrader == <<[type |-> "Quiz", min_count |-> 3, drop_count |-> 1, weight |-> 100]>>
LetterCutoffs == [A |-> 90, B |-> 80, C |-> 70]
GradingPolicies ==
    {NonePolicy}
        \cup {Policy(d) : d \in {<<>>,
                                 [GRADE_CUTOFFS |-> LetterCutoffs],
                                 [GRADER |-> OneGrader],
                                 [GRADER |-> <<>>],
                                 [GRADER |-> OneGrader, GRADE_CUTOFFS |-> LetterCutoffs]}}

\* a course is constructed from a definition with a grading policy and
\* metadata with dates
LoadCourse ==
    \E metadata \in Metadatas, policy \in GradingPolicies :
        LET cfg == Config(<<>>, <<>>, metadata, NoneInfo, policy)
            res == CourseInit(cfg, cached_toc, now)
        IN  /\ course' = res.course
            /\ cached_toc' = res.cache
            /\ reply' = NoReply
            /\ UNCHANGED <<now, lookup, exam, threads>>

\* has_started() of the loaded course is called
CourseHasStarted ==
    /\ course.loaded
    /\ reply' = [op |-> "has_started", at |-> now,
                 val |-> course_has_started(course, now)]
    /\ UNCHANGED <<now, cached_toc, lookup, exam, course, threads>>

\* the property start_date_text of the loaded course is read
CourseStartDateText ==
    /\ course.loaded
    /\ reply' = [op |-> "start_date_text", at |-> now,
                 val |-> start_date_text(course)]
    /\ UNCHANGED <<now, cached_toc, lookup, exam, course, threads>>

\* the property days_until_start of the loaded course is read
CourseDaysUntilStart ==
    /\ course.loaded
    /\ reply' = [op |-> "days_until_start", at |-> now,
                 val |-> days_until_start(course, now)]
    /\ UNCHANGED <<now, cached_toc, lookup, exam, course, threads>>

NextCourse ==
    \/ Tick
    \/ LoadCourse
    \/ CourseHasStarted
    \/ CourseStartDateText
    \/ CourseDaysUntilStart

SpecCourse == Init /\ [][NextCourse]_vars

\* C8: the merge is by top-level key: raw_grader and grade_cutoffs are the
\* override's value for GRADER, GRADE_CUTOFFS when the override has the
\* key, and otherwise the whole default for that key (four grader buckets,
\* cutoffs {Pass: 0.5}); a None override yields the whole default.
C8_GradingPolicyMergedByKey ==
    course.loaded =>
        LET given == course.configured.grading_policy
            override == IF given.none THEN <<>> ELSE given.dict
        IN  /\ raw_grader(course) =
                  IF "GRADER" \in DOMAIN override THEN override["GRADER"]
                  ELSE <<GraderHomework, GraderLab, GraderMidterm, GraderFinal>>
            /\ grade_cutoffs(course) =
                  IF "GRADE_CUTOFFS" \in DOMAIN override THEN override["GRADE_CUTOFFS"]
                  ELSE [Pass |-> 50]

\* a course loaded with an override of one grader bucket and no cutoffs:
\* raw_grader is that one bucket
C8_Witness ==
    /\ course.loaded
    /\ course.configured.grading_policy = Policy([GRADER |-> OneGrader])
    /\ Len(raw_grader(course)) = 1
    /\ grade_cutoffs(course) = [Pass |-> 50]

\* C9: a course configured without a parseable start loads, records a
\* critical message in the log and with the error tracker, has its start
\* set to the epoch, and has_started() answers true whenever it is called
\* at a time later than the epoch.
C9_NoStartDefaultsToEpoch ==
    (course.called /\ ~Parses(course.configured.metadata, "start")) =>
        /\ course.loaded
        /\ \E i \in 1..Len(course.log) : course.log[i].level = "critical"
        /\ course.error_tracker # <<>>
        /\ start(course.metadata) = Epoch
        /\ (reply.op = "has_started" /\ reply.at > Epoch) => reply.val

\* has_started() answered true on a course whose configured start was free
\* text
C9_Witness ==
    /\ course.loaded
    /\ "start" \in DOMAIN course.configured.metadata
    /\ ~Parses(course.configured.metadata, "start")
    /\ reply.op = "has_started"
    /\ reply.at > Epoch
    /\ reply.val

\* C10: start_date_text is the formatted advertised_start when
\* advertised_start is present and parses; the raw advertised_start string
\* when it is present and does not parse, whatever start is; and the
\* formatted start only when advertised_start is absent.
C10_StartDateTextPreference ==
    (course.loaded /\ reply.op = "start_date_text") =>
        LET metadata == course.configured.metadata IN
        IF "advertised_start" \in DOMAIN metadata
        THEN IF Parses(metadata, "advertised_start")
             THEN reply.val = strftime_date(metadata["advertised_start"].at)
             ELSE reply.val = metadata["advertised_start"]
        ELSE reply.val = strftime_date(start(course.metadata))

\* start_date_text answered the advertised day although the course starts
\* on another day
C10_Witness ==
    /\ course.loaded
    /\ reply.op = "start_date_text"
    /\ Parses(course.configured.metadata, "advertised_start")
    /\ Parses(course.configured.metadata, "start")
    /\ reply.val = strftime_date(course.configured.metadata["advertised_start"].at)
    /\ reply.val # strftime_date(course.configured.metadata["start"].at)

-----------------------------------------------------------------------------
(* A course and its textbooks *)

\* the textbooks of a definition: up to MaxTextbooks pairs of title and
\* book_url, editions of one book kept at one book_url, with the network's
\* answer to the request each may make
TextbookLists ==
    UNION {[1..n -> {[title |-> "Textbook", book_url |-> "s3/book1/"]}]
              : n \in 0..MaxTextbooks}
ResponseLists(n) == [1..n -> Responses({TocNested, TocEmpty})]

\* a course is constructed whose definition lists textbooks; its metadata
\* has no start and configures an exam that fails validation and one that
\* passes
LoadCourseWithTextbooks ==
    \E textbooks \in TextbookLists :
        \E responses \in ResponseLists(Len(textbooks)) :
            LET cfg == Config(textbooks, responses, <<>>,
                           TestCenterInfo(ExamsOf(
                               <<(LAST :> TimeString(2 * Slot)),
                                 (FIRST :> TimeString(Slot)) @@ (LAST :> TimeString(2 * Slot))>>)),
                           NonePolicy)
                res == CourseInit(cfg, cached_toc, now)
            IN  /\ course' = res.course
                /\ cached_toc' = res.cache
                /\ reply' = NoReply
                /\ UNCHANGED <<now, lookup, exam, threads>>

NextTextbooks == Tick \/ LoadCourseWithTextbooks

SpecTextbooks == Init /\ [][NextTextbooks]_vars

\* the configured textbooks whose construction succeeded, from the i-th on
RECURSIVE Succeeded(_, _, _)
Succeeded(configured, attempts, i) ==
    IF i > Len(configured) THEN <<>>
    ELSE IF attempts[i] THEN <<configured[i]>> \o Succeeded(configured, attempts, i + 1)
    ELSE Succeeded(configured, attempts, i + 1)

-----------------------------------------------------------------------------
(* A course, its dates: start_date_text and days_until_start *)

\* C11: on a loaded course configured with no start and no
\* advertised_start, start_date_text is the literal string "TBD".
C11_NoStartGivesTBD ==
    (/\ course.loaded
     /\ reply.op = "start_date_text"
     /\ "start" \notin DOMAIN course.configured.metadata
     /\ "advertised_start" \notin DOMAIN course.configured.metadata)
        => reply.val = FreeText("TBD")

\* C12: with no advertised_start, days_until_start is the whole-day part,
\* rounded toward minus infinity, of start - now: k when the start is k
\* whole days after the time of the call, negative when the start is past.
C12_DaysUntilStartIsFloor ==
    (/\ course.loaded
     /\ reply.op = "days_until_start"
     /\ "advertised_start" \notin DOMAIN course.configured.metadata)
        => LET left == start(course.metadata) - reply.at IN
           /\ reply.val * 86400 <= left
           /\ left < (reply.val + 1) * 86400
           /\ \A k \in 0..5 : left = k * 86400 => reply.val = k
           /\ left < 0 => reply.val < 0

\* days_until_start answered -2 for a start one day and Slot seconds past,
\* and elsewhere 1 for a start exactly one day ahead
C12_Witness ==
    /\ course.loaded
    /\ reply.op = "days_until_start"
    /\ "advertised_start" \notin DOMAIN course.configured.metadata
    /\ start(course.metadata) - reply.at = -(86400 + Slot)
    /\ reply.val = -2

-----------------------------------------------------------------------------
(* One test center exam: the defaults of its registration dates *)

\* C16: in a constructed exam registration_start_date is the epoch whenever
\* Registration_Start_Date is absent or unparseable, registration_end_date
\* is last_eligible_appointment_date whenever Registration_End_Date is
\* absent or unparseable, and an unparseable optional date alone never
\* makes the construction fail: with the unparseable date left out the
\* construction raises in the same cases.
C16_OptionalDatesDefault ==
    exam.called =>
        LET info == exam.exam_info
            first == Configured(info, FIRST, NoTime)
            last == Configured(info, LAST, NoTime)
            required_ok == Parses(info, FIRST) /\ Parses(info, LAST) /\ first <= last
        IN  /\ (exam.constructed /\ ~Parses(info, REG_START))
                => exam.registration_start_date = Epoch
            /\ (exam.constructed /\ ~Parses(info, REG_END))
                => exam.registration_end_date = exam.last_eligible_appointment_date
            /\ (required_ok /\ ~Parses(info, REG_START) /\ ~Parses(info, REG_END))
                => exam.constructed
            /\ (/\ required_ok
                /\ ~Parses(info, REG_START)
                /\ Parses(info, REG_END)
                /\ info[REG_END].at <= last)
                => exam.constructed
            /\ (/\ required_ok
                /\ Parses(info, REG_START)
                /\ ~Parses(info, REG_END)
                /\ info[REG_START].at <= last)
                => exam.constructed

\* an exam constructed from an unparseable Registration_Start_Date and an
\* unparseable Registration_End_Date
C16_Witness ==
    /\ exam.constructed
    /\ REG_START \in DOMAIN exam.exam_info
    /\ REG_END \in DOMAIN exam.exam_info
    /\ ~IsTimeString(exam.exam_info[REG_START])
    /\ ~IsTimeString(exam.exam_info[REG_END])
    /\ exam.registration_start_date = Epoch
    /\ exam.registration_end_date = exam.last_eligible_appointment_date
    /\ exam.last_eligible_appointment_date = 2 * Slot

-----------------------------------------------------------------------------
(* The grading policy file: read_grading_policy and from_xml, lines 204-258 *)

\* the contents of a file: a JSON object, the JSON text null, or text that
\* is not JSON
JsonText(d) == [text |-> "object", dict |-> d]
JsonNull == [text |-> "null", dict |-> <<>>]
BadText == [text |-> "{'GRADER': oops", dict |-> <<>>]

\* json.loads: ValueError on text that is not JSON, else the value decoded
json_loads_raises(str) == str.text \notin {"object", "null"}
json_loads(str) == IF str.text = "null" THEN NonePolicy ELSE Policy(str.dict)

\* a path of resources_fs: absent, present but failing to open with
\* IOError, or a file that is read
Absent == [exists |-> FALSE, opens |-> FALSE, contents |-> JsonText(<<>>)]
Unreadable == [exists |-> TRUE, opens |-> FALSE, contents |-> JsonText(<<>>)]
File(contents) == [exists |-> TRUE, opens |-> TRUE, contents |-> contents]

\* lines 240, 243: the two candidate paths
BarePath == <<"grading_policy.json">>
PolicyPath(url_name) == <<"policies", url_name>> \o BarePath

\* read_grading_policy before its loop: the blank policy, nothing opened
NoPolicyRead ==
    [policy_str |-> JsonText(<<>>), done |-> FALSE, opened |-> <<>>,
     warned |-> <<>>, log |-> <<>>]

\* one turn of the loop that goes on to the later paths after a file was read
read_policy_path_KeepLooking(fs, policy_path, acc) ==
    IF ~fs[policy_path].exists THEN acc
    ELSE LET tried == [acc EXCEPT !.opened = Append(@, policy_path),
                                  !.log = Append(@, Logged("debug", "Loading grading policy"))]
         IN  IF fs[policy_path].opens
             THEN [tried EXCEPT !.policy_str = fs[policy_path].contents]
             ELSE [tried EXCEPT !.warned = Append(@, policy_path),
                                !.log = Append(@, Logged("warning",
                                            "Unable to load course settings file"))]

\* lines 210-221: one turn of the loop, on policy_path
read_policy_path(fs, policy_path, acc) ==
    IF ~fs[policy_path].exists THEN acc
    ELSE LET tried == [acc EXCEPT !.opened = Append(@, policy_path),
                                  !.log = Append(@, Logged("debug", "Loading grading policy"))]
         IN  IF fs[policy_path].opens
             THEN [tried EXCEPT !.policy_str = fs[policy_path].contents,
                                !.done = TRUE]
             ELSE [tried EXCEPT !.warned = Append(@, policy_path),
                                !.log = Append(@, Logged("warning",
                                            "Unable to load course settings file"))]

RECURSIVE read_policy_paths(_, _, _, _)
\* the loop over paths[i..], left by break once a file was read
read_policy_paths(paths, fs, i, acc) ==
    IF i > Len(paths) \/ acc.done THEN acc
    ELSE read_policy_paths(paths, fs, i + 1, read_policy_path(fs, paths[i], acc))

\* CourseDescriptor.read_grading_policy
read_grading_policy(paths, fs) == read_policy_paths(paths, fs, 1, NoPolicyRead)

\* lines 235-237: the url_name of the course element, None ("") without one
xml_url_name(attrib) ==
    IF "url_name" \in DOMAIN attrib THEN attrib["url_name"]
    ELSE IF "slug" \in DOMAIN attrib THEN attrib["slug"]
    ELSE ""

\* lines 240-243: the candidate paths
policy_paths(attrib) ==
    IF xml_url_name(attrib) # ""
    THEN <<PolicyPath(xml_url_name(attrib)), BarePath>>
    ELSE <<BarePath>>

\* the decoding that keeps a failure to itself
decode_policy_Silent(policy_str) ==
    IF json_loads_raises(policy_str)
    THEN [policy |-> NonePolicy, error_tracker |-> <<>>]
    ELSE [policy |-> json_loads(policy_str), error_tracker |-> <<>>]

\* lines 245-249: the policy decoded, None and a report to the error
\* tracker when the text is not JSON
decode_policy(policy_str) ==
    IF json_loads_raises(policy_str)
    THEN [policy |-> NonePolicy,
          error_tracker |-> <<"Unable to decode grading policy as json">>]
    ELSE [policy |-> json_loads(policy_str), error_tracker |-> <<>>]

\* CourseDescriptor.from_xml at time t: the course element's attributes,
\* the configuration parsed from the XML (no grading policy in it) and the
\* resources file system; the instance, the cache and what was read
from_xml(attrib, cfg, fs, cache, t) ==
    LET init == CourseInit(cfg, cache, t)
        paths == policy_paths(attrib)
        read == read_grading_policy(paths, fs)
        decoded == decode_policy(read.policy_str)
    IN  IF ~init.course.loaded
        THEN [course |-> init.course, cache |-> init.cache, paths |-> <<>>,
              read |-> NoPolicyRead]
        ELSE [course |->
                 [init.course EXCEPT
                     !.log = @ \o read.log,
                     !.error_tracker = @ \o decoded.error_tracker,
                     !.definition_has_grading_policy = TRUE,
                     !.definition_grading_policy = decoded.policy,
                     !.grading_policy = set_grading_policy(decoded.policy)],
              cache |-> init.cache, paths |-> paths, read |-> read]

-----------------------------------------------------------------------------
(* The setters of raw_grader and grade_cutoffs: lines 327-340 *)

\* definition['data'].setdefault('grading_policy', {})[key] = value on the
\* course c: setdefault answers the value already under the key, None
\* included, and an item assignment on None raises TypeError
mirror_set(c, key, value) ==
    IF ~c.definition_has_grading_policy
    THEN [raised |-> FALSE,
          course |-> [c EXCEPT !.definition_has_grading_policy = TRUE,
                               !.definition_grading_policy =
                                   Policy(DictSet(<<>>, key, value))]]
    ELSE IF c.definition_grading_policy.none
    THEN [raised |-> TRUE, course |-> c]
    ELSE [raised |-> FALSE,
          course |-> [c EXCEPT !.definition_grading_policy =
                                   Policy(DictSet(@.dict, key, value))]]

\* a raw_grader setter that builds the processed grader again
set_raw_grader_Reprocess(c, value) ==
    mirror_set([c EXCEPT !.grading_policy =
                    DictSet(DictSet(@, "RAW_GRADER", value),
                            "GRADER", grader_from_conf(value))],
               "GRADER", value)

\* the raw_grader setter, lines 327-331
set_raw_grader(c, value) ==
    mirror_set([c EXCEPT !.grading_policy = DictSet(@, "RAW_GRADER", value)],
               "GRADER", value)

\* the grade_cutoffs setter, lines 337-340
set_grade_cutoffs(c, value) ==
    mirror_set([c EXCEPT !.grading_policy = DictSet(@, "GRADE_CUTOFFS", value)],
               "GRADE_CUTOFFS", value)

-----------------------------------------------------------------------------
(* A course loaded from XML with a policy file, then edited: SpecPolicy *)

UrlNames == {"2012_Fall"}
\* the course element without url_name and slug, with url_name, with slug
CourseAttribs ==
    {<<>>} \cup {[url_name |-> u] : u \in UrlNames} \cup {[slug |-> u] : u \in UrlNames}
PassAt60 == [Pass |-> 60]
FileContents ==
    {JsonText(<<>>), JsonText([GRADE_CUTOFFS |-> LetterCutoffs]),
     JsonText([GRADER |-> OneGrader]), JsonNull, BadText}
FileStates == {Absent, Unreadable} \cup {File(c) : c \in FileContents}
FileSystems == [{PolicyPath(u) : u \in UrlNames} \cup {BarePath} -> FileStates]
RawGraderValues == {<<>>, OneGrader}
GradeCutoffsValues == {LetterCutoffs, PassAt60}

\* a course is loaded from XML, its policy file looked for in resources_fs
FromXml ==
    \E attrib \in CourseAttribs, fs \in FileSystems :
        LET cfg == Config(<<>>, <<>>, [start |-> TimeString(Slot)], NoneInfo, NonePolicy)
            res == from_xml(attrib, cfg, fs, cached_toc, now)
        IN  /\ course' = res.course
            /\ cached_toc' = res.cache
            /\ reply' = [op |-> "from_xml", at |-> now,
                         val |-> [attrib |-> attrib, fs |-> fs,
                                  paths |-> res.paths, read |-> res.read]]
            /\ UNCHANGED <<now, lookup, exam, threads>>

\* a course is constructed from a stored definition, with or without a
\* grading policy in it
LoadCourseWithPolicy ==
    \E policy \in GradingPolicies :
        LET cfg == Config(<<>>, <<>>, [start |-> TimeString(Slot)], NoneInfo, policy)
            res == CourseInit(cfg, cached_toc, now)
        IN  /\ course' = res.course
            /\ cached_toc' = res.cache
            /\ reply' = NoReply
            /\ UNCHANGED <<now, lookup, exam, threads>>

\* course.raw_grader = value
SetRawGrader ==
    /\ course.loaded
    /\ \E value \in RawGraderValues :
        LET res == set_raw_grader(course, value)
        IN  /\ course' = res.course
            /\ reply' = [op |-> "raw_grader=", at |-> now,
                         val |-> [value |-> value, raised |-> res.raised]]
    /\ UNCHANGED <<now, cached_toc, lookup, exam, threads>>

\* course.grade_cutoffs = value
SetGradeCutoffs ==
    /\ course.loaded
    /\ \E value \in GradeCutoffsValues :
        LET res == set_grade_cutoffs(course, value)
        IN  /\ course' = res.course
            /\ reply' = [op |-> "grade_cutoffs=", at |-> now,
                         val |-> [value |-> value, raised |-> res.raised]]
    /\ UNCHANGED <<now, cached_toc, lookup, exam, threads>>

NextPolicy ==
    \/ FromXml
    \/ LoadCourseWithPolicy
    \/ SetRawGrader
    \/ SetGradeCutoffs

SpecPolicy == Init /\ [][NextPolicy]_vars

\* the candidate paths as the claims give them: the course-specific path
\* before the bare one when the course element names the course
Candidates(attrib) ==
    LET named == {k \in {"url_name", "slug"} : k \in DOMAIN attrib}
    IN  IF named = {} THEN <<BarePath>>
        ELSE IF "url_name" \in named
        THEN <<<<"policies", attrib["url_name"], "grading_policy.json">>, BarePath>>
        ELSE <<<<"policies", attrib["slug"], "grading_policy.json">>, BarePath>>

\* the places among paths of the files that exist and open
Readable(paths, fs) == {i \in 1..Len(paths) : fs[paths[i]].exists /\ fs[paths[i]].opens}
\* the first of them, 0 when there is none
FirstReadable(paths, fs) ==
    IF Readable(paths, fs) = {} THEN 0
    ELSE CHOOSE i \in Readable(paths, fs) : \A j \in Readable(paths, fs) : i <= j
\* the first n paths that exist, in order
Existing(paths, fs, n) ==
    LET exists(policy_path) == fs[policy_path].exists
    IN  SelectSeq(SubSeq(paths, 1, n), exists)

\* C13: the candidate paths are examined in order, the course-specific one
\* before the bare one; the result is the contents of the first path that
\* exists and opens, and no later path is opened; a path that exists but
\* fails to open is warned about and the next is tried; with no path that
\* exists and opens the result is '{}'.
C13_FirstReadablePolicyFile ==
    reply.op = "from_xml" =>
        LET paths == reply.val.paths
            fs == reply.val.fs
            read == reply.val.read
            first == FirstReadable(paths, fs)
        IN  /\ paths = Candidates(reply.val.attrib)
            /\ IF first = 0
               THEN /\ read.policy_str = JsonText(<<>>)
                    /\ read.opened = Existing(paths, fs, Len(paths))
                    /\ read.warned = Existing(paths, fs, Len(paths))
               ELSE /\ read.policy_str = fs[paths[first]].contents
                    /\ read.opened = Existing(paths, fs, first)
                    /\ read.warned = Existing(paths, fs, first - 1)

\* the course-specific file exists and fails to open, the bare file is read
\* and gives the cutoffs
C13_Witness ==
    /\ reply.op = "from_xml"
    /\ Len(reply.val.paths) = 2
    /\ reply.val.fs[reply.val.paths[1]] = Unreadable
    /\ reply.val.fs[BarePath] = File(JsonText([GRADE_CUTOFFS |-> LetterCutoffs]))
    /\ reply.val.read.warned = <<reply.val.paths[1]>>
    /\ course.loaded
    /\ grade_cutoffs(course) = LetterCutoffs

\* C17: when the contents of the policy file read are not valid JSON,
\* from_xml does not raise, the failure is reported to the error tracker,
\* and the course has exactly the default raw_grader and grade_cutoffs.
C17_BadJsonFallsBackToDefaults ==
    (/\ reply.op = "from_xml"
     /\ FirstReadable(reply.val.paths, reply.val.fs) # 0
     /\ reply.val.fs[reply.val.paths[FirstReadable(reply.val.paths, reply.val.fs)]].contents
            = BadText)
        => /\ course.loaded
           /\ \E i \in 1..Len(course.error_tracker) :
                  course.error_tracker[i] = "Unable to decode grading policy as json"
           /\ raw_grader(course) = <<GraderHomework, GraderLab, GraderMidterm, GraderFinal>>
           /\ grade_cutoffs(course) = [Pass |-> 50]
           /\ grader(course) =
                  grader_from_conf(<<GraderHomework, GraderLab, GraderMidterm, GraderFinal>>)

\* a course loaded from XML whose course-specific policy file is not JSON,
\* a good bare file beside it left unread
C17_Witness ==
    /\ reply.op = "from_xml"
    /\ Len(reply.val.paths) = 2
    /\ reply.val.fs[reply.val.paths[1]] = File(BadText)
    /\ reply.val.fs[BarePath] = File(JsonText([GRADER |-> OneGrader]))
    /\ course.loaded
    /\ Len(raw_grader(course)) = 4

\* C14: on any loaded course assigning grade_cutoffs or raw_grader succeeds
\* and leaves both the in-memory value and the mirror
\* definition['data']['grading_policy'] (under GRADE_CUTOFFS, respectively
\* GRADER) equal to the assigned value.
C14_SettersSucceedAndMirror ==
    /\ reply.op = "raw_grader=" =>
           /\ ~reply.val.raised
           /\ raw_grader(course) = reply.val.value
           /\ course.definition_has_grading_policy
           /\ ~course.definition_grading_policy.none
           /\ "GRADER" \in DOMAIN course.definition_grading_policy.dict
           /\ course.definition_grading_policy.dict["GRADER"] = reply.val.value
    /\ reply.op = "grade_cutoffs=" =>
           /\ ~reply.val.raised
           /\ grade_cutoffs(course) = reply.val.value
           /\ course.definition_has_grading_policy
           /\ ~course.definition_grading_policy.none
           /\ "GRADE_CUTOFFS" \in DOMAIN course.definition_grading_policy.dict
           /\ course.definition_grading_policy.dict["GRADE_CUTOFFS"] = reply.val.value

\* the fields of a course other than its two grading policies
OtherFields ==
    DOMAIN course \ {"grading_policy", "definition_grading_policy",
                     "definition_has_grading_policy"}

\* C19: assigning raw_grader leaves the processed grader and grade_cutoffs
\* as they were, assigning grade_cutoffs leaves grader and raw_grader as
\* they were, and neither touches the rest of the course.
C19_SettersFrame ==
    [][/\ SetRawGrader =>
              /\ grader(course') = grader(course)
              /\ grade_cutoffs(course') = grade_cutoffs(course)
              /\ \A f \in OtherFields : course'[f] = course[f]
       /\ SetGradeCutoffs =>
              /\ grader(course') = grader(course)
              /\ raw_grader(course') = raw_grader(course)
              /\ \A f \in OtherFields : course'[f] = course[f]]_vars

\* raw_grader was assigned an empty list on a course whose processed grader
\* is still the one built from the policy file's single bucket
C19_Witness ==
    /\ reply.op = "raw_grader="
    /\ reply.val.value = <<>>
    /\ raw_grader(course) = <<>>
    /\ grader(course) = grader_from_conf(OneGrader)
    /\ course.definition_grading_policy = Policy([GRADER |-> <<>>])

-----------------------------------------------------------------------------
(* One textbook constructed on its own: SpecTextbook *)

\* Textbook(title, book_url) is constructed, the server answering resp
NewTextbook ==
    \E resp \in Responses(Tocs) :
        LET res == Textbook("Textbook", "s3/book1/", cached_toc, resp, now)
        IN  /\ cached_toc' = res.cache
            /\ reply' = [op |-> "Textbook", at |-> now,
                         val |-> [raised |-> res.raised, textbook |-> res.textbook]]
            /\ UNCHANGED <<now, lookup, exam, course, threads>>

NextTextbook == Tick \/ NewTextbook

SpecTextbook == Init /\ [][NextTextbook]_vars

\* the last child of an element, and the element three moves to the last
\* child lead to at most
LastChild(el) == el.children[Len(el.children)]
Leaf(el) == el.children = <<>>
Deepest(el) ==
    IF Leaf(el) THEN el
    ELSE IF Leaf(LastChild(el)) THEN LastChild(el)
    ELSE IF Leaf(LastChild(LastChild(el))) THEN LastChild(LastChild(el))
    ELSE LastChild(LastChild(LastChild(el)))

\* C18: a constructed Textbook has start_page equal to the page attribute
\* of the first top-level entry of its table of contents and end_page equal
\* to the page attribute of the element reached from the last top-level
\* entry by moving to the last child until an element has no children.
C18_StartAndEndPage ==
    (reply.op = "Textbook" /\ ~reply.val.raised) =>
        LET book == reply.val.textbook
            toc == book.table_of_contents
        IN  /\ Len(toc.children) >= 1
            /\ Leaf(Deepest(LastChild(toc)))
            /\ toc.children[1].page \in DOMAIN PageNumbers
            /\ book.start_page = PageNumbers[toc.children[1].page]
            /\ Deepest(LastChild(toc)).page \in DOMAIN PageNumbers
            /\ book.end_page = PageNumbers[Deepest(LastChild(toc)).page]

\* a textbook constructed on the nested table of contents: pages 3 to 9,
\* the 9 three levels down
C18_Witness ==
    /\ reply.op = "Textbook"
    /\ ~reply.val.raised
    /\ reply.val.textbook.table_of_contents = TocNested
    /\ reply.val.textbook.start_page = 3
    /\ reply.val.textbook.end_page = 9

-----------------------------------------------------------------------------
(* Registration extension fields: form_fields.py, lines 14-57 *)

\* FIELD_TYPE_MAP, keyed by the name of the class
FIELD_TYPE_MAP ==
    [cls \in {"CharField", "PasswordInput", "ChoiceField", "TypedChoiceField",
              "Textarea", "BooleanField", "EmailField"} |->
        CASE cls = "CharField" -> "text"
          [] cls = "PasswordInput" -> "password"
          [] cls = "ChoiceField" -> "select"
          [] cls = "TypedChoiceField" -> "select"
          [] cls = "Textarea" -> "textarea"
          [] cls = "BooleanField" -> "checkbox"
          [] cls = "EmailField" -> "email"]

\* a Python string, and None, where either may stand
Str(s) == [str |-> s]
NoneValue == [none |-> TRUE]
\* x is falsy: None or the empty string
Falsy(x) == x = NoneValue \/ x = Str("")

\* the error_messages of a form field
ErrorMessages == [required |-> "This field is required.", invalid |-> "Enter a valid value."]

\* a form field of class cls whose attributes max_length and min_length are
\* those of the dict lengths (no key: no attribute, or None)
FormField(cls, lengths) ==
    [class |-> cls, lengths |-> lengths, label |-> "Favorite movie",
     initial |-> "", help_text |-> "Name a movie", error_messages |-> ErrorMessages]

\* dict.get(key, default)
dict_get(d, key, default) == IF key \in DOMAIN d THEN d[key] ELSE default

\* lines 31-34: getattr(field_description, name, None) is truthy
HasLength(field_description, name) ==
    /\ name \in DOMAIN field_description.lengths
    /\ field_description.lengths[name] # 0

\* add_extension_form_field: custom_form is the serialization_options of the
\* form's Meta, {} for a form without them
add_extension_form_field(field_name, custom_form, field_description, field_type) ==
    LET restrictions ==
            IF field_type = "required"
            THEN [k \in {n \in {"max_length", "min_length"} : HasLength(field_description, n)}
                     |-> field_description.lengths[k]]
            ELSE <<>>
        field_options == dict_get(custom_form, field_name, <<>>)
        mapped == IF field_description.class \in DOMAIN FIELD_TYPE_MAP
                  THEN Str(FIELD_TYPE_MAP[field_description.class])
                  ELSE NoneValue
        \* line 39: the parameter field_type is bound again
        field_type_2 == dict_get(field_options, "field_type", mapped)
    IN  IF Falsy(field_type_2)
        THEN [raised |-> TRUE, value |-> <<>>]
        ELSE [raised |-> FALSE,
              value |->
                 [name |-> field_name,
                  label |-> field_description.label,
                  default |-> dict_get(field_options, "default", NoneValue),
                  placeholder |-> field_description.initial,
                  instructions |-> field_description.help_text,
                  options |-> NoneValue,
                  error_message |-> IF field_type_2 = Str("required")
                                    THEN field_description.error_messages
                                    ELSE Str(""),
                  restrictions |-> restrictions,
                  type |-> field_type_2]]

FieldClasses == {"CharField", "EmailField", "ChoiceField", "BooleanField", "DateField"}
Lengths == {0, 2, 30}
FieldOptions ==
    {<<>>, [default |-> Str("Jaws")]}
        \cup {[field_type |-> Str(t)] : t \in {"select", "required", ""}}
CustomForms == {<<>>} \cup {[f \in {"favorite_movie"} |-> o] : o \in FieldOptions}

\* add_extension_form_field is called, by the view of the required fields
\* or by the view of the optional ones
AddExtensionFormField ==
    \E cls \in FieldClasses, lengths \in Dicts({"max_length", "min_length"}, Lengths),
       custom_form \in CustomForms, field_type \in {"required", "optional"} :
        LET field_description == FormField(cls, lengths)
            res == add_extension_form_field("favorite_movie", custom_form,
                                            field_description, field_type)
        IN  /\ reply' = [op |-> "add_extension_form_field", at |-> now,
                         val |-> [custom_form |-> custom_form,
                                  field_description |-> field_description,
                                  field_type |-> field_type,
                                  raised |-> res.raised, value |-> res.value]]
            /\ UNCHANGED <<now, cached_toc, lookup, exam, course, threads>>

NextForm == AddExtensionFormField

SpecForm == Init /\ [][NextForm]_vars

\* C20: called with field_type 'required' on a field of a recognized class,
\* add_extension_form_field returns a description whose error_message is
\* the field's error_messages and whose restrictions hold the field's
\* max_length and min_length when set; with any other field_type the
\* error_message and the restrictions are empty; it raises
\* ImproperlyConfigured when neither the serialization options nor
\* FIELD_TYPE_MAP give a type for the field.
C20_ExtensionFormField ==
    reply.op = "add_extension_form_field" =>
        LET v == reply.val
            field == v.field_description
            options == IF "favorite_movie" \in DOMAIN v.custom_form
                       THEN v.custom_form["favorite_movie"] ELSE <<>>
            recognized == field.class \in DOMAIN FIELD_TYPE_MAP
            typed == IF "field_type" \in DOMAIN options
                     THEN options["field_type"] # Str("")
                     ELSE recognized
        IN  /\ v.raised = ~typed
            /\ (~v.raised /\ v.field_type = "required" /\ recognized) =>
                   /\ v.value.error_message = field.error_messages
                   /\ \A n \in {"max_length", "min_length"} :
                          (n \in DOMAIN field.lengths /\ field.lengths[n] # 0)
                              => /\ n \in DOMAIN v.value.restrictions
                                 /\ v.value.restrictions[n] = field.lengths[n]
            /\ (~v.raised /\ v.field_type # "required") =>
                   /\ v.value.error_message = Str("")
                   /\ v.value.restrictions = <<>>

-----------------------------------------------------------------------------
(* Two threads in _get_toc_from_s3 for one URL: SpecThreads.  Each step is
   one access to the shared dict _cached_toc or one call made between two
   accesses; the interpreter makes each single dict access atomic. *)

Threads == {1, 2}
SharedUrl == TocUrl("s3/book1/")
\* the document the server holds when thread i asks for it
ServedTo(i) == IF i = 1 THEN TocFlat ELSE TocNested

\* a store that leaves an entry already under the key as it is
store_toc_KeepFirst(cache, toc_url, table_of_contents, t) ==
    IF toc_url \in DOMAIN cache THEN cache
    ELSE DictSet(cache, toc_url, CacheEntry(table_of_contents, t))

\* line 93: _cached_toc[toc_url] = (table_of_contents, datetime.now())
store_toc(cache, toc_url, table_of_contents, t) ==
    DictSet(cache, toc_url, CacheEntry(table_of_contents, t))

\* both threads enter _get_toc_from_s3
StartLookups ==
    /\ \A i \in Threads : threads[i].pc \in {"idle", "done"}
    /\ \E r1 \in Responses({ServedTo(1)}), r2 \in Responses({ServedTo(2)}) :
          threads' =
              [i \in Threads |->
                  [IdleThread EXCEPT
                      !.pc = "check",
                      !.resp = IF i = 1 THEN r1 ELSE r2,
                      !.had_entry = SharedUrl \in DOMAIN cached_toc,
                      !.before = IF SharedUrl \in DOMAIN cached_toc
                                 THEN cached_toc[SharedUrl] ELSE @]]
    /\ UNCHANGED <<now, cached_toc, lookup, exam, course, reply>>

\* line 72: if toc_url in _cached_toc
CheckCache(i) ==
    /\ threads[i].pc = "check"
    /\ threads' = [threads EXCEPT ![i].pc =
                      IF SharedUrl \in DOMAIN cached_toc THEN "read" ELSE "fetch"]
    /\ UNCHANGED <<now, cached_toc, lookup, exam, course, reply>>

\* line 73: (table_of_contents, timestamp) = _cached_toc[toc_url]; a
\* KeyError would be swallowed by the except of line 78
ReadEntry(i) ==
    /\ threads[i].pc = "read"
    /\ threads' = IF SharedUrl \in DOMAIN cached_toc
                  THEN [threads EXCEPT ![i].pc = "age",
                                       ![i].entry = cached_toc[SharedUrl]]
                  ELSE [threads EXCEPT ![i].pc = "fetch"]
    /\ UNCHANGED <<now, cached_toc, lookup, exam, course, reply>>

\* lines 74-77: the age of the entry read, and the return of its document
TestAge(i) ==
    /\ threads[i].pc = "age"
    /\ threads' = IF timedelta_seconds(now - threads[i].entry.timestamp) < 600
                  THEN [threads EXCEPT ![i].pc = "done",
                                       ![i].returned = TRUE,
                                       ![i].table_of_contents = threads[i].entry.toc]
                  ELSE [threads EXCEPT ![i].pc = "fetch"]
    /\ UNCHANGED <<now, cached_toc, lookup, exam, course, reply>>

\* lines 83-88: requests.get
Fetch(i) ==
    /\ threads[i].pc = "fetch"
    /\ threads' = IF threads[i].resp.kind = "error"
                  THEN [threads EXCEPT ![i].pc = "done", ![i].raised = TRUE]
                  ELSE [threads EXCEPT ![i].pc = "parse"]
    /\ UNCHANGED <<now, cached_toc, lookup, exam, course, reply>>

\* lines 91-92, 94-97: etree.fromstring
Parse(i) ==
    /\ threads[i].pc = "parse"
    /\ threads' = IF threads[i].resp.kind = "malformed"
                  THEN [threads EXCEPT ![i].pc = "done", ![i].raised = TRUE]
                  ELSE [threads EXCEPT ![i].pc = "store",
                                       ![i].table_of_contents = threads[i].resp.toc]
    /\ UNCHANGED <<now, cached_toc, lookup, exam, course, reply>>

\* lines 93, 99: the entry is stored and the document returned
Store(i) ==
    /\ threads[i].pc = "store"
    /\ cached_toc' = store_toc(cached_toc, SharedUrl, threads[i].table_of_contents, now)
    /\ threads' = [threads EXCEPT
                      ![i].pc = "done",
                      ![i].returned = TRUE,
                      ![i].stored = TRUE,
                      ![i].written = CacheEntry(threads[i].table_of_contents, now),
                      ![i].order = 1 + Cardinality({j \in Threads : threads[j].stored})]
    /\ UNCHANGED <<now, lookup, exam, course, reply>>

NextThreads ==
    \/ Tick
    \/ StartLookups
    \/ \E i \in Threads : CheckCache(i)
    \/ \E i \in Threads : ReadEntry(i)
    \/ \E i \in Threads : TestAge(i)
    \/ \E i \in Threads : Fetch(i)
    \/ \E i \in Threads : Parse(i)
    \/ \E i \in Threads : Store(i)

SpecThreads == Init /\ [][NextThreads]_vars

\* the threads that stored an entry in this pair of lookups
Writers == {i \in Threads : threads[i].stored}

-----------------------------------------------------------------------------
(* One test center exam: how its predicates stand to each other *)

\* at one reading of the clock: has_ended implies has_started and
\* has_ended_registration, has_ended_registration implies
\* has_started_registration, and is_registering implies not has_ended
ExamPredicatesConsistent ==
    exam.constructed =>
        /\ exam_has_ended(exam, now) => exam_has_started(exam, now)
        /\ exam_has_ended(exam, now) => has_ended_registration(exam, now)
        /\ has_ended_registration(exam, now) => has_started_registration(exam, now)
        /\ is_registering(exam, now) => ~exam_has_ended(exam, now)

\* on the same exam, a predicate true before a step is true after it
ExamPredicatesStay ==
    (exam.constructed /\ exam' = exam) =>
        /\ exam_has_started(exam, now) => exam_has_started(exam', now')
        /\ has_started_registration(exam, now) => has_started_registration(exam', now')
        /\ has_ended_registration(exam, now) => has_ended_registration(exam', now')
        /\ exam_has_ended(exam, now) => exam_has_ended(exam', now')

\* C21: for every constructed exam and every time, has_ended() implies
\* has_started() and has_ended_registration(), has_ended_registration()
\* implies has_started_registration(), and is_registering() implies not
\* has_ended(); as the clock advances each of has_started,
\* has_started_registration, has_ended_registration and has_ended, once
\* true, stays true.
C21_ExamPredicatesOrdered ==
    /\ []ExamPredicatesConsistent
    /\ [][ExamPredicatesStay]_vars

\* is_registering() answered true at the last appointment date, which is
\* also the end of registration, on an exam that has started: has_ended()
\* is still false there
C21_Witness ==
    /\ exam.constructed
    /\ reply.op = "is_registering"
    /\ reply.val
    /\ reply.at = now
    /\ now = exam.last_eligible_appointment_date
    /\ now = exam.registration_end_date
    /\ exam_has_started(exam, now)
    /\ has_started_registration(exam, now)
    /\ ~exam_has_ended(exam, now)

-----------------------------------------------------------------------------
(* The table-of-contents cache: lookups that fail *)

\* every entry of the cache holds a document that parsed, stamped with a
\* reading of the clock
EntriesParsed ==
    \A toc_url \in DOMAIN cached_toc :
        /\ cached_toc[toc_url].toc \in {TocFlat, TocNested}
        /\ cached_toc[toc_url].timestamp \in Instants

\* a lookup that raised left the whole cache as it was
FailedLookupKeepsCache ==
    (LookupToc /\ lookup'.raised) => cached_toc' = cached_toc

\* C22: a lookup that fails, the fetch raising or the text fetched not
\* parsing as XML, leaves the cache exactly as it was (no entry added, a
\* stale entry of the URL neither removed nor stamped again); the cache is
\* written only after a successful parse, so every entry holds a parsed
\* document.
C22_FailedLookupLeavesCache ==
    /\ []EntriesParsed
    /\ [][FailedLookupKeepsCache]_vars

\* a lookup found a stale entry, fetched, raised, and the entry is still
\* the one it found, beside the entry of the other URL
C22_Witness ==
    /\ lookup.called
    /\ lookup.raised
    /\ lookup.fetched
    /\ lookup.had_entry
    /\ lookup.age = 2 * Slot
    /\ cached_toc[lookup.url] = lookup.before
    /\ lookup.before.timestamp + 2 * Slot = lookup.at
    /\ DOMAIN cached_toc = {TocUrl(u) : u \in BookUrls}

====
